---- MODULE Spec2Model ----
(***************************************************************************)
(* Model of tw_keypair's curve-agnostic private key (tw/private.rs) and of *)
(* the STARK signature codec (starkex/signature.rs).                       *)
(*                                                                         *)
(* Bytes are integers 0..255, buffers are sequences of bytes.  The curve   *)
(* backends (secp256k1::PrivateKey, starkex::PrivateKey, the signers, the  *)
(* field element type and H256) live outside the two modelled files; they  *)
(* are modelled from the design document and marked so in the model map.   *)
(***************************************************************************)
EXTENDS Integers, Sequences, FiniteSets, TLC

VARIABLES keyState, bytes, orig, freed, last

vars == <<keyState, bytes, orig, freed, last>>

(***************************************************************************)
(* Program constants and model bounds.                                     *)
(***************************************************************************)
\* TWPrivateKey::SIZE
SIZE == 32
\* Signature::LEN
LEN == 64
\* Buffers handed to the operations have a length within MaxSlack of the
\* length the operation expects (or are empty).
MaxSlack == 1

\* Rust half-open ranges start..end over 0-based indices
KEY_RANGE == [start |-> 0, end |-> SIZE]
R_RANGE == [start |-> 0, end |-> 32]
S_RANGE == [start |-> 32, end |-> 64]

(***************************************************************************)
(* Byte-buffer helpers.                                                    *)
(***************************************************************************)
Fill(n, v) == [i \in 1..n |-> v]
Zeros(n) == Fill(n, 0)
WithByte(n, pos, v) == [i \in 1..n |-> IF i = pos THEN v ELSE 0]
\* &b[range]; the callers establish range.end <= Len(b) first
Slice(b, range) == SubSeq(b, range.start + 1, range.end)
AllZero(b) == \A i \in 1..Len(b) : b[i] = 0
Reverse(b) == [i \in 1..Len(b) |-> b[Len(b) + 1 - i]]
\* a < b for big-endian byte strings of equal length
LessBE(a, b) == \E i \in 1..Len(a) : a[i] < b[i] /\ \A j \in 1..(i - 1) : a[j] = b[j]

RECURSIVE StripTrailingZeros(_)
StripTrailingZeros(d) ==
    IF Len(d) = 0 THEN d
    ELSE IF d[Len(d)] = 0 THEN StripTrailingZeros(SubSeq(d, 1, Len(d) - 1))
    ELSE d

(***************************************************************************)
(* Results: Ok(v), Err(e), a panic, or a plain bool.                       *)
(***************************************************************************)
Ok(v) == [kind |-> "Ok", err |-> "None", val |-> v]
Err(e) == [kind |-> "Err", err |-> e, val |-> <<>>]
Panic == [kind |-> "Panic", err |-> "None", val |-> <<>>]
Bool(b) == [kind |-> "Bool", err |-> "None", val |-> b]

(***************************************************************************)
(* Collaborators outside the two modelled files.                           *)
(***************************************************************************)
\* H256::try_from(&[u8]): a 32-byte array from a slice of exactly 32 bytes
H256_try_from(b) == IF Len(b) = 32 THEN Ok(b) ELSE Err("InvalidLength")

\* The STARK field modulus 2^251 + 17 * 2^192 + 1, big-endian
StarkPrime == [i \in 1..32 |-> IF i = 1 THEN 8 ELSE IF i = 8 THEN 17 ELSE IF i = 32 THEN 1 ELSE 0]
StarkPrimeMinus1 == [i \in 1..32 |-> IF i = 1 THEN 8 ELSE IF i = 8 THEN 17 ELSE 0]
\* The order of the secp256k1 group, big-endian
Secp256k1Order ==
    Fill(15, 255) \o <<254, 186, 174, 220, 230, 175, 72, 160, 59, 191, 210, 94, 140, 208, 54, 65, 65>>
Secp256k1OrderMinus1 ==
    Fill(15, 255) \o <<254, 186, 174, 220, 230, 175, 72, 160, 59, 191, 210, 94, 140, 208, 54, 65, 64>>

\* FieldElement: the value as little-endian base-256 digits without trailing
\* zero digits (zero is the empty sequence).
\* FieldElement::from_bytes_be accepts exactly the 32-byte strings below the modulus.
FieldElement_from_bytes_be(b) ==
    IF LessBE(b, StarkPrime) THEN Ok(StripTrailingZeros(Reverse(b))) ELSE Err("FromByteArrayError")
\* FieldElement::to_bytes_be: the fixed-width 32-byte big-endian form
FieldElement_to_bytes_be(fe) == Reverse(fe \o Zeros(32 - Len(fe)))

\* secp256k1::PrivateKey::try_from(&[u8]): a scalar in 1..order-1
secp256k1_PrivateKey_try_from(b) ==
    IF Len(b) = 32 /\ ~AllZero(b) /\ LessBE(b, Secp256k1Order)
    THEN Ok([curve |-> "Secp256k1", secret |-> b])
    ELSE Err("InvalidSecretKey")
\* starkex::PrivateKey::try_from(&[u8]): a field element
starkex_PrivateKey_try_from(b) ==
    IF Len(b) = 32 /\ FieldElement_from_bytes_be(b).kind = "Ok"
    THEN Ok([curve |-> "Starkex", secret |-> b])
    ELSE Err("InvalidSecretKey")

\* <Key as SigningKeyTrait>::SigningHash::try_from(hash): the backend's digest shape
SigningHash_try_from(curve, hash) == H256_try_from(hash)

\* PrivateKey::public(): the backend's public key of a private key (opaque)
public(privkey) == [curve |-> privkey.curve, of |-> privkey.secret]

\* secp256k1 Signature::to_vec: r, s and the recovery id
secp256k1_Signature_to_vec(sig) == sig.r \o sig.s \o <<sig.v>>

(***************************************************************************)
(* tw/private.rs: TWPrivateKey.  An operation hands back its result and    *)
(* the backend entry points it consulted, in order.                        *)
(***************************************************************************)
Ret(res, calls) == [res |-> res, calls |-> calls]

\* Mutant: the zero check is left out
is_valid_general_NoZeroCheck(b) ==
    IF Len(b) # SIZE THEN FALSE
    ELSE TRUE

\* Mutant: the length check only rejects buffers that are too short
is_valid_general_AtLeastSize(b) ==
    IF Len(b) < SIZE THEN FALSE
    ELSE ~(\A i \in 1..Len(b) : b[i] = 0)

\* pub fn is_valid_general(bytes: &[u8]) -> bool
is_valid_general(b) ==
    IF Len(b) # SIZE THEN FALSE
    ELSE ~(\A i \in 1..Len(b) : b[i] = 0)

\* pub fn new(bytes: Vec<u8>) -> Result<TWPrivateKey, Error>
new(b) ==
    IF ~is_valid_general(b) THEN Err("InvalidSecretKey")
    ELSE Ok([bytes |-> b])

\* pub fn key(&self) -> H256; the assert! and the expect panic
key(self) ==
    IF ~(Len(self.bytes) >= SIZE) THEN Panic
    ELSE LET h == H256_try_from(Slice(self.bytes, KEY_RANGE))
         IN  IF h.kind = "Ok" THEN h ELSE Panic

\* Mutant: every curve is checked with the secp256k1 parser
is_valid_AlwaysSecp(b, curve) ==
    IF ~is_valid_general(b) THEN Ret(Bool(FALSE), <<>>)
    ELSE Ret(Bool(secp256k1_PrivateKey_try_from(Slice(b, KEY_RANGE)).kind = "Ok"),
             <<"secp256k1::PrivateKey::try_from">>)

\* pub fn is_valid(bytes: &[u8], curve: TWCurve) -> bool
is_valid(b, curve) ==
    IF ~is_valid_general(b) THEN Ret(Bool(FALSE), <<>>)
    ELSE CASE curve = "Secp256k1" ->
                Ret(Bool(secp256k1_PrivateKey_try_from(Slice(b, KEY_RANGE)).kind = "Ok"),
                    <<"secp256k1::PrivateKey::try_from">>)
           [] curve = "Starkex" ->
                Ret(Bool(starkex_PrivateKey_try_from(Slice(b, KEY_RANGE)).kind = "Ok"),
                    <<"starkex::PrivateKey::try_from">>)

\* fn to_secp256k1_privkey(&self) -> Result<secp256k1::PrivateKey, Error>
to_secp256k1_privkey(self) ==
    LET k == key(self)
    IN  IF k.kind = "Panic" THEN Ret(Panic, <<>>)
        ELSE Ret(secp256k1_PrivateKey_try_from(k.val), <<"secp256k1::PrivateKey::try_from">>)

\* fn to_starkex_privkey(&self) -> Result<starkex::PrivateKey, Error>
to_starkex_privkey(self) ==
    LET k == key(self)
    IN  IF k.kind = "Panic" THEN Ret(Panic, <<>>)
        ELSE Ret(starkex_PrivateKey_try_from(k.val), <<"starkex::PrivateKey::try_from">>)

(***************************************************************************)
(* starkex/signature.rs: Signature, a pair of field elements r and s.      *)
(***************************************************************************)
\* pub fn r(&self) -> H256
Signature_r(sig) == FieldElement_to_bytes_be(sig.r)

\* pub fn s(&self) -> H256
Signature_s(sig) == FieldElement_to_bytes_be(sig.s)

\* Mutant: s is written before r
Signature_to_vec_SFirst(sig) ==
    LET to_return0 == <<>>
        to_return1 == to_return0 \o Signature_s(sig)
        to_return2 == to_return1 \o Signature_r(sig)
    IN  to_return2

\* impl ToBytesVec for Signature: fn to_vec(&self) -> Vec<u8>
Signature_to_vec(sig) ==
    LET to_return0 == <<>>
        to_return1 == to_return0 \o Signature_r(sig)
        to_return2 == to_return1 \o Signature_s(sig)
    IN  to_return2

\* Mutant: the length check only rejects inputs that are too short
Signature_try_from_AtLeastLen(b) ==
    IF Len(b) < LEN THEN Err("InvalidSignature")
    ELSE LET r_bytes == H256_try_from(Slice(b, R_RANGE))
             s_bytes == H256_try_from(Slice(b, S_RANGE))
         IN  IF r_bytes.kind # "Ok" \/ s_bytes.kind # "Ok" THEN Panic
             ELSE LET r == FieldElement_from_bytes_be(r_bytes.val)
                      s == FieldElement_from_bytes_be(s_bytes.val)
                  IN  IF r.kind # "Ok" THEN Err("InvalidSignature")
                      ELSE IF s.kind # "Ok" THEN Err("InvalidSignature")
                      ELSE Ok([r |-> r.val, s |-> s.val])

\* Mutant: s is read from the r range
Signature_try_from_SFromRRange(b) ==
    IF Len(b) # LEN THEN Err("InvalidSignature")
    ELSE LET r_bytes == H256_try_from(Slice(b, R_RANGE))
             s_bytes == H256_try_from(Slice(b, R_RANGE))
         IN  IF r_bytes.kind # "Ok" \/ s_bytes.kind # "Ok" THEN Panic
             ELSE LET r == FieldElement_from_bytes_be(r_bytes.val)
                      s == FieldElement_from_bytes_be(s_bytes.val)
                  IN  IF r.kind # "Ok" THEN Err("InvalidSignature")
                      ELSE IF s.kind # "Ok" THEN Err("InvalidSignature")
                      ELSE Ok([r |-> r.val, s |-> s.val])

\* impl TryFrom<&[u8]> for Signature: fn try_from(bytes) -> Result<Self, Error>
Signature_try_from(b) ==
    IF Len(b) # LEN THEN Err("InvalidSignature")
    ELSE LET r_bytes == H256_try_from(Slice(b, R_RANGE))
             s_bytes == H256_try_from(Slice(b, S_RANGE))
         IN  IF r_bytes.kind # "Ok" \/ s_bytes.kind # "Ok" THEN Panic
             ELSE LET r == FieldElement_from_bytes_be(r_bytes.val)
                      s == FieldElement_from_bytes_be(s_bytes.val)
                  IN  IF r.kind # "Ok" THEN Err("InvalidSignature")
                      ELSE IF s.kind # "Ok" THEN Err("InvalidSignature")
                      ELSE Ok([r |-> r.val, s |-> s.val])

(***************************************************************************)
(* tw/private.rs: signing and public-key derivation.                       *)
(***************************************************************************)
\* SigningKeyTrait::sign of a backend key: `out` is the signature value the
\* backend computes for this call
SigningKeyTrait_sign(signing_key, hash_to_sign, out) == Ok(out)

\* Mutant: a digest of the wrong shape is reported with the key's error kind
sign_impl_WrongErrorKind(signing_key, hash, out) ==
    LET hash_to_sign == SigningHash_try_from(signing_key.curve, hash)
    IN  IF hash_to_sign.kind # "Ok" THEN Ret(Err("InvalidSecretKey"), <<>>)
        ELSE LET signed == SigningKeyTrait_sign(signing_key, hash_to_sign.val, out)
                 called == IF signing_key.curve = "Secp256k1"
                           THEN <<"secp256k1::PrivateKey::sign">>
                           ELSE <<"starkex::PrivateKey::sign">>
             IN  IF signed.kind # "Ok" THEN Ret(signed, called)
                 ELSE IF signing_key.curve = "Starkex"
                 THEN Ret(Ok(Signature_to_vec(signed.val)), called)
                 ELSE Ret(Ok(secp256k1_Signature_to_vec(signed.val)), called)

\* fn sign_impl<Key>(signing_key: Key, hash: &[u8]) -> Result<Vec<u8>, Error>
sign_impl(signing_key, hash, out) ==
    LET hash_to_sign == SigningHash_try_from(signing_key.curve, hash)
    IN  IF hash_to_sign.kind # "Ok" THEN Ret(Err("InvalidSignMessage"), <<>>)
        ELSE LET signed == SigningKeyTrait_sign(signing_key, hash_to_sign.val, out)
                 called == IF signing_key.curve = "Secp256k1"
                           THEN <<"secp256k1::PrivateKey::sign">>
                           ELSE <<"starkex::PrivateKey::sign">>
             IN  IF signed.kind # "Ok" THEN Ret(signed, called)
                 ELSE IF signing_key.curve = "Starkex"
                 THEN Ret(Ok(Signature_to_vec(signed.val)), called)
                 ELSE Ret(Ok(secp256k1_Signature_to_vec(signed.val)), called)

\* Mutant: the Secp256k1 arm converts the key with the starkex parser
sign_SecpArmUsesStarkex(self, hash, curve, out) ==
    CASE curve = "Secp256k1" ->
            LET k == to_starkex_privkey(self)
            IN  IF k.res.kind # "Ok" THEN k
                ELSE LET r == sign_impl(k.res.val, hash, out)
                     IN  Ret(r.res, k.calls \o r.calls)
      [] curve = "Starkex" ->
            LET k == to_starkex_privkey(self)
            IN  IF k.res.kind # "Ok" THEN k
                ELSE LET r == sign_impl(k.res.val, hash, out)
                     IN  Ret(r.res, k.calls \o r.calls)

\* pub fn sign(&self, hash: &[u8], curve: TWCurve) -> Result<Vec<u8>, Error>
sign(self, hash, curve, out) ==
    CASE curve = "Secp256k1" ->
            LET k == to_secp256k1_privkey(self)
            IN  IF k.res.kind # "Ok" THEN k
                ELSE LET r == sign_impl(k.res.val, hash, out)
                     IN  Ret(r.res, k.calls \o r.calls)
      [] curve = "Starkex" ->
            LET k == to_starkex_privkey(self)
            IN  IF k.res.kind # "Ok" THEN k
                ELSE LET r == sign_impl(k.res.val, hash, out)
                     IN  Ret(r.res, k.calls \o r.calls)

\* Mutant: the Secp256k1Extended arm wraps the key in the Secp256k1 variant
get_public_key_by_type_ExtendedAsPlain(self, ty) ==
    CASE ty \in {"Secp256k1", "Secp256k1Extended"} ->
            LET privkey == to_secp256k1_privkey(self)
            IN  IF privkey.res.kind # "Ok" THEN privkey
                ELSE Ret(Ok([tag |-> "Secp256k1", key |-> public(privkey.res.val)]), privkey.calls)
      [] ty = "Starkex" ->
            LET privkey == to_starkex_privkey(self)
            IN  IF privkey.res.kind # "Ok" THEN privkey
                ELSE Ret(Ok([tag |-> "Starkex", key |-> public(privkey.res.val)]), privkey.calls)

\* pub fn get_public_key_by_type(&self, ty: TWPublicKeyType) -> Result<TWPublicKey, Error>
get_public_key_by_type(self, ty) ==
    CASE ty = "Secp256k1" ->
            LET privkey == to_secp256k1_privkey(self)
            IN  IF privkey.res.kind # "Ok" THEN privkey
                ELSE Ret(Ok([tag |-> "Secp256k1", key |-> public(privkey.res.val)]), privkey.calls)
      [] ty = "Secp256k1Extended" ->
            LET privkey == to_secp256k1_privkey(self)
            IN  IF privkey.res.kind # "Ok" THEN privkey
                ELSE Ret(Ok([tag |-> "Secp256k1Extended", key |-> public(privkey.res.val)]), privkey.calls)
      [] ty = "Starkex" ->
            LET privkey == to_starkex_privkey(self)
            IN  IF privkey.res.kind # "Ok" THEN privkey
                ELSE Ret(Ok([tag |-> "Starkex", key |-> public(privkey.res.val)]), privkey.calls)

\* #[derive(ZeroizeOnDrop)]: the drop glue overwrites every byte of `bytes`
zeroize(b) == [i \in 1..Len(b) |-> 0]

(***************************************************************************)
(* Inputs the operations are exercised with.                               *)
(***************************************************************************)
Curves == {"Secp256k1", "Starkex"}
PublicKeyTypes == {"Secp256k1", "Secp256k1Extended", "Starkex"}
CurveOf(ty) == IF ty = "Starkex" THEN "Starkex" ELSE "Secp256k1"

Lens(n) == {0} \cup ((n - MaxSlack)..(n + MaxSlack))

OffLens(n) == Lens(n) \ {n}

\* 32-byte strings around the boundaries of both scalar parsers
KeyScalars ==
    { Zeros(32), WithByte(32, 32, 1), StarkPrimeMinus1, StarkPrime,
      Secp256k1OrderMinus1, Secp256k1Order, Fill(32, 255) }

KeyInputs == KeyScalars \cup UNION { {Zeros(n), Fill(n, 255)} : n \in OffLens(SIZE) }

Digests == UNION { {Zeros(n), Fill(n, 255)} : n \in Lens(32) }

SigHalves == { Zeros(32), WithByte(32, 32, 1), StarkPrimeMinus1, StarkPrime }
SigInputs ==
    { r \o s : r \in SigHalves, s \in SigHalves }
        \cup UNION { {Zeros(n), Fill(n, 255)} : n \in OffLens(LEN) }

FieldElements == { FieldElement_from_bytes_be(b).val : b \in { x \in SigHalves : LessBE(x, StarkPrime) } }
Signatures == [r : FieldElements, s : FieldElements]

\* Signature values the backend signers hand back
StarkexOuts == { sg \in Signatures : sg.r # <<>> /\ sg.s = <<1>> }
Secp256k1Outs == [r : {WithByte(32, 32, 1), Fill(32, 255)}, s : {WithByte(32, 32, 1)}, v : {1}]
Outs(curve) == IF curve = "Starkex" THEN StarkexOuts ELSE Secp256k1Outs

NoSig == [r |-> <<>>, s |-> <<>>]
Op(op, arg, hash, curve, sig, ret) ==
    [op |-> op, arg |-> arg, hash |-> hash, curve |-> curve, sig |-> sig,
     res |-> ret.res, calls |-> ret.calls]

(***************************************************************************)
(* The state machine: one TWPrivateKey slot, the storage most recently     *)
(* handed back to the allocator, and the last operation with its result.   *)
(***************************************************************************)
self == [bytes |-> bytes]

Init ==
    /\ keyState = "none"
    /\ bytes = <<>>
    /\ orig = <<>>
    /\ freed = <<>>
    /\ last = Op("init", <<>>, <<>>, "none", NoSig, Ret(Bool(TRUE), <<>>))

\* TWPrivateKey::new(b): on Ok the key owns b; on Err the Vec argument goes
\* out of scope as a plain Vec<u8> and its storage is released as it is.
New(b) ==
    /\ keyState = "none"
    /\ LET res == new(b)
       IN  /\ last' = Op("new", b, <<>>, "none", NoSig, Ret(res, <<>>))
           /\ IF res.kind = "Ok"
              THEN /\ keyState' = "alive"
                   /\ bytes' = res.val.bytes
                   /\ orig' = b
                   /\ freed' = freed
              ELSE /\ keyState' = "none"
                   /\ bytes' = <<>>
                   /\ orig' = <<>>
                   /\ freed' = b

\* drop(key): ZeroizeOnDrop overwrites the buffer, then the Vec is released
Drop ==
    /\ keyState = "alive"
    /\ keyState' = "none"
    /\ freed' = zeroize(bytes)
    /\ bytes' = <<>>
    /\ orig' = <<>>
    /\ last' = Op("drop", <<>>, <<>>, "none", NoSig, Ret(Bool(TRUE), <<>>))

Key ==
    /\ keyState = "alive"
    /\ last' = Op("key", <<>>, <<>>, "none", NoSig, Ret(key(self), <<>>))
    /\ UNCHANGED <<keyState, bytes, orig, freed>>

IsValidGeneral(b) ==
    /\ last' = Op("is_valid_general", b, <<>>, "none", NoSig, Ret(Bool(is_valid_general(b)), <<>>))
    /\ UNCHANGED <<keyState, bytes, orig, freed>>

IsValid(b, curve) ==
    /\ last' = Op("is_valid", b, <<>>, curve, NoSig, is_valid(b, curve))
    /\ UNCHANGED <<keyState, bytes, orig, freed>>

Sign(hash, curve, out) ==
    /\ keyState = "alive"
    /\ last' = Op("sign", <<>>, hash, curve, NoSig, sign(self, hash, curve, out))
    /\ UNCHANGED <<keyState, bytes, orig, freed>>

GetPublicKeyByType(ty) ==
    /\ keyState = "alive"
    /\ last' = Op("get_public_key_by_type", <<>>, <<>>, ty, NoSig, get_public_key_by_type(self, ty))
    /\ UNCHANGED <<keyState, bytes, orig, freed>>

SignatureTryFrom(b) ==
    /\ last' = Op("try_from", b, <<>>, "none", NoSig, Ret(Signature_try_from(b), <<>>))
    /\ UNCHANGED <<keyState, bytes, orig, freed>>

SignatureToVec(sig) ==
    /\ last' = Op("to_vec", <<>>, <<>>, "none", sig, Ret(Ok(Signature_to_vec(sig)), <<>>))
    /\ UNCHANGED <<keyState, bytes, orig, freed>>

Next ==
    \/ \E b \in KeyInputs : New(b)
    \/ Drop
    \/ Key
    \/ \E b \in KeyInputs : IsValidGeneral(b)
    \/ \E b \in KeyInputs, curve \in Curves : IsValid(b, curve)
    \/ \E hash \in Digests, curve \in Curves : \E out \in Outs(curve) : Sign(hash, curve, out)
    \/ \E ty \in PublicKeyTypes : GetPublicKeyByType(ty)
    \/ \E b \in SigInputs : SignatureTryFrom(b)
    \/ \E sig \in Signatures : SignatureToVec(sig)

Spec == Init /\ [][Next]_vars

(***************************************************************************)
(* Properties.                                                             *)
(***************************************************************************)
NonZero(b) == \E i \in 1..Len(b) : b[i] # 0
GenerallyValid(b) == Len(b) = 32 /\ NonZero(b)
ParserAccepts(curve, b) ==
    IF curve = "Secp256k1" THEN secp256k1_PrivateKey_try_from(b).kind = "Ok"
    ELSE starkex_PrivateKey_try_from(b).kind = "Ok"
ParserName(curve) ==
    IF curve = "Secp256k1" THEN "secp256k1::PrivateKey::try_from" ELSE "starkex::PrivateKey::try_from"
SignerCalled ==
    \E i \in 1..Len(last.calls) :
        last.calls[i] \in {"secp256k1::PrivateKey::sign", "starkex::PrivateKey::sign"}
KeyWindow == SubSeq(bytes, 1, SIZE)
DigestShapeOk(curve, hash) == SigningHash_try_from(curve, hash).kind = "Ok"
IsErr(e) == last.res.kind = "Err" /\ last.res.err = e

\* C1: new(b) returns Ok and the key owns b exactly when b has 32 bytes, not
\* all zero (which is what is_valid_general(b) says); otherwise it returns
\* Err(InvalidSecretKey) and no key object exists.
C1_NewOkIffGenerallyValid ==
    last.op = "new" =>
        /\ GenerallyValid(last.arg) = is_valid_general(last.arg)
        /\ (last.res.kind = "Ok") = GenerallyValid(last.arg)
        /\ GenerallyValid(last.arg) => keyState = "alive" /\ bytes = last.arg
        /\ ~GenerallyValid(last.arg) => IsErr("InvalidSecretKey") /\ keyState = "none" /\ bytes = <<>>

C1_Witness ==
    /\ last.op = "new"
    /\ last.arg = Secp256k1Order
    /\ last.res.kind = "Ok"
    /\ keyState = "alive"

\* C2 as stated: for every constructed key, every curve and every digest of
\* the wrong length, sign returns Err(InvalidSignMessage) and the backend
\* signer is not invoked.
C2_Original ==
    (last.op = "sign" /\ ~DigestShapeOk(last.curve, last.hash)) =>
        IsErr("InvalidSignMessage") /\ ~SignerCalled

\* C2 amended: for a digest of the wrong length the backend signer is never
\* invoked; sign returns Err(InvalidSignMessage) when the selected curve's
\* scalar parser accepts the key, and Err(InvalidSecretKey) when it rejects it.
C2_WrongDigestLength ==
    (last.op = "sign" /\ ~DigestShapeOk(last.curve, last.hash)) =>
        /\ ~SignerCalled
        /\ ParserAccepts(last.curve, KeyWindow) => IsErr("InvalidSignMessage")
        /\ ~ParserAccepts(last.curve, KeyWindow) => IsErr("InvalidSecretKey")

C2_Witness ==
    /\ last.op = "sign"
    /\ last.curve = "Starkex"
    /\ Len(last.hash) = 32 + 1
    /\ bytes = StarkPrimeMinus1
    /\ IsErr("InvalidSignMessage")

\* C3: whenever a buffer handed to new stops being owned (drop of the key, or
\* new returning Err), the storage released holds only zero bytes.
C3_ErasedBeforeFree == AllZero(freed)

C5_IsValidDecomposes ==
    last.op = "is_valid" =>
        /\ last.res.val = (GenerallyValid(last.arg) /\ ParserAccepts(last.curve, SubSeq(last.arg, 1, 32)))
        /\ ~GenerallyValid(last.arg) => last.calls = <<>>
        /\ GenerallyValid(last.arg) => last.calls = <<ParserName(last.curve)>>

\* a generally valid buffer, valid for secp256k1 and invalid for starkex
C5_Witness ==
    /\ last.op = "is_valid"
    /\ last.curve = "Starkex"
    /\ GenerallyValid(last.arg)
    /\ last.res.val = FALSE
    /\ is_valid(last.arg, "Secp256k1").res.val = TRUE

\* C6: Signature::try_from returns Err(InvalidSignature) for every input whose
\* length is not 64; for 64 bytes it is Ok exactly when both halves are valid
\* field elements; it never panics and has no other error kind.
C6_ParseRejects ==
    last.op = "try_from" =>
        /\ last.res.kind \in {"Ok", "Err"}
        /\ last.res.kind = "Err" => last.res.err = "InvalidSignature"
        /\ Len(last.arg) # 64 => last.res.kind = "Err"
        /\ Len(last.arg) = 64 =>
              ((last.res.kind = "Ok") =
                  (/\ FieldElement_from_bytes_be(SubSeq(last.arg, 1, 32)).kind = "Ok"
                   /\ FieldElement_from_bytes_be(SubSeq(last.arg, 33, 64)).kind = "Ok"))

C6_Witness ==
    /\ last.op = "try_from"
    /\ Len(last.arg) = LEN + 1
    /\ IsErr("InvalidSignature")

\* C7: to_vec(parse(bytes)) = bytes for every input parse accepts, and
\* parse(to_vec(sig)) succeeds with the same r and s for every signature.
C7_RoundTrip ==
    /\ (last.op = "try_from" /\ last.res.kind = "Ok") => Signature_to_vec(last.res.val) = last.arg
    /\ last.op = "to_vec" =>
          LET parsed == Signature_try_from(last.res.val)
          IN  parsed.kind = "Ok" /\ parsed.val.r = last.sig.r /\ parsed.val.s = last.sig.s

C7_Witness ==
    /\ last.op = "try_from"
    /\ last.arg = WithByte(32, 32, 1) \o StarkPrimeMinus1
    /\ last.res.kind = "Ok"

\* C8: to_vec returns exactly 64 bytes, r() first and s() last, each the
\* fixed-width 32-byte big-endian form of the scalar, also for scalars with
\* leading zero bytes and for zero.
C8_FixedWidth ==
    last.op = "to_vec" =>
        LET v == last.res.val
        IN  /\ Len(v) = 64
            /\ SubSeq(v, 1, 32) = Signature_r(last.sig)
            /\ SubSeq(v, 33, 64) = Signature_s(last.sig)
            /\ \A i \in 1..32 : v[33 - i] = (IF i <= Len(last.sig.r) THEN last.sig.r[i] ELSE 0)
            /\ \A i \in 1..32 : v[65 - i] = (IF i <= Len(last.sig.s) THEN last.sig.s[i] ELSE 0)

C8_Witness ==
    /\ last.op = "to_vec"
    /\ last.sig.r = <<>>
    /\ last.sig.s = <<1>>
    /\ Len(last.res.val) = 64

\* C9: when the selected curve's scalar parser rejects the key window, sign
\* returns Err(InvalidSecretKey) for every digest and get_public_key_by_type
\* returns Err(InvalidSecretKey) for every type of that curve; when it accepts,
\* get_public_key_by_type returns Ok with the variant tagged by the type asked.
C9_KeyConversionFailure ==
    /\ (last.op = "sign" /\ ~ParserAccepts(last.curve, KeyWindow))
          => IsErr("InvalidSecretKey") /\ ~SignerCalled
    /\ last.op = "get_public_key_by_type" =>
          IF ParserAccepts(CurveOf(last.curve), KeyWindow)
          THEN last.res.kind = "Ok" /\ last.res.val.tag = last.curve
          ELSE IsErr("InvalidSecretKey")

C9_Witness ==
    /\ last.op = "sign"
    /\ last.curve = "Starkex"
    /\ bytes = StarkPrime
    /\ ~DigestShapeOk(last.curve, last.hash)
    /\ IsErr("InvalidSecretKey")

\* C10: while the key is alive its buffer has exactly 32 bytes, not all zero,
\* equal to the bytes passed to new; no operation panics, and key() returns
\* those 32 bytes.
C10_KeyWindowInvariant ==
    keyState = "alive" =>
        /\ Len(bytes) = SIZE
        /\ NonZero(bytes)
        /\ bytes = orig
        /\ last.res.kind # "Panic"
        /\ last.op = "key" => last.res = Ok(orig)

C10_Witness ==
    /\ keyState = "alive"
    /\ last.op = "key"
    /\ last.res = Ok(Fill(32, 255))

====
